---- MODULE Spec2Model ----
(***************************************************************************)
(* Model of validador_SCENA.py: the flight-record validator.               *)
(*                                                                         *)
(* A cell of the table is either missing (pandas NaN) or a text value.     *)
(* NaN is the empty tuple and the text s is the 1-tuple <<s>>, so that a   *)
(* comparison of a missing cell with a literal is defined and false, as    *)
(* in Python (nan != 'IBK' is True, nan in [...] is False).                *)
(* A row is a function from the column labels of the CSV to cells; the     *)
(* flight identifier column holds an integer.  A data frame is a sequence  *)
(* of [idx, row] entries: idx is the pandas index label, which survives    *)
(* filtering.                                                              *)
(***************************************************************************)
EXTENDS Integers, Sequences, FiniteSets, TLC

VARIABLES pc, df, show_movement, show_corrections, dfv, it, violations,
          df_validated, total_violations, processed, written, csv

vars == <<pc, df, show_movement, show_corrections, dfv, it, violations,
          df_validated, total_violations, processed, written, csv>>

(***************************************************************************)
(* Cells                                                                   *)
(***************************************************************************)
NaN == <<>>

Str(s) == <<s>>

isna(v) == v = NaN

notna(v) == v # NaN

\* str() of a cell inside an f-string: a missing cell prints as "nan"
Fmt(v) == IF v = NaN THEN "nan" ELSE v[1]

\* Python slice s[:n] of a text: clamps at the end of the text
Slice(s, n) == SubSeq(s, 1, IF Len(s) < n THEN Len(s) ELSE n)

(***************************************************************************)
(* datetime.strptime, as far as the two formats of convert_datetime go     *)
(***************************************************************************)
None == <<>>

Digits == "0123456789"

IsDigit(c) == \E d \in 0..9 : SubSeq(Digits, d + 1, d + 1) = c

DigitVal(c) == CHOOSE d \in 0..9 : SubSeq(Digits, d + 1, d + 1) = c

Char(s, i) == SubSeq(s, i, i)

AllDigits(s) == \A i \in 1..Len(s) : IsDigit(Char(s, i))

RECURSIVE NumVal(_)
NumVal(s) ==
  IF Len(s) = 0 THEN 0
  ELSE 10 * NumVal(SubSeq(s, 1, Len(s) - 1)) + DigitVal(Char(s, Len(s)))

SepPositions(s, sep) == {i \in 1..Len(s) : Char(s, i) = sep}

\* the fields of s between the separators, or <<>> when their number is not n
Fields(s, sep, n) ==
  LET ps == SepPositions(s, sep)
      cut(k) == IF k = 0 THEN 0
                ELSE IF k = n THEN Len(s) + 1
                ELSE CHOOSE p \in ps : Cardinality({q \in ps : q < p}) = k - 1
  IN  IF Cardinality(ps) # n - 1 THEN <<>>
      ELSE [k \in 1..n |-> SubSeq(s, cut(k - 1) + 1, cut(k) - 1)]

\* %d : 3[0-1] | [1-2]\d | 0[1-9] | [1-9] | " "[1-9]
MatchDay(s) ==
  \/ Len(s) \in {1, 2} /\ AllDigits(s) /\ NumVal(s) \in 1..31
  \/ Len(s) = 2 /\ Char(s, 1) = " " /\ IsDigit(Char(s, 2)) /\ DigitVal(Char(s, 2)) >= 1

DayVal(s) == IF Char(s, 1) = " " THEN DigitVal(Char(s, 2)) ELSE NumVal(s)

\* %m : 1[0-2] | 0[1-9] | [1-9]
MatchMonth(s) == Len(s) \in {1, 2} /\ AllDigits(s) /\ NumVal(s) \in 1..12

\* %Y : \d\d\d\d
MatchYear(s) == Len(s) = 4 /\ AllDigits(s)

\* %H : 2[0-3] | [0-1]\d | \d
MatchHour(s) == Len(s) \in {1, 2} /\ AllDigits(s) /\ NumVal(s) \in 0..23

\* %M : [0-5]\d | \d
MatchMinute(s) == Len(s) \in {1, 2} /\ AllDigits(s) /\ NumVal(s) \in 0..59

IsLeap(y) == y % 4 = 0 /\ (y % 100 # 0 \/ y % 400 = 0)

DaysInMonth(y, m) ==
  IF m = 2 THEN (IF IsLeap(y) THEN 29 ELSE 28)
  ELSE IF m \in {4, 6, 9, 11} THEN 30 ELSE 31

\* datetime.strptime(date_str, '%d/%m/%Y'): <<year, month, day>>, or None
\* where Python raises ValueError
StrptimeDate(s) ==
  LET f == Fields(s, "/", 3)
  IN  IF f = <<>> THEN None
      ELSE IF ~(MatchDay(f[1]) /\ MatchMonth(f[2]) /\ MatchYear(f[3])) THEN None
      ELSE LET y == NumVal(f[3])
               m == NumVal(f[2])
               d == DayVal(f[1])
           IN  IF y >= 1 /\ d <= DaysInMonth(y, m) THEN <<y, m, d>> ELSE None

\* datetime.strptime(time_str, '%H:%M').time(): <<hour, minute>>, or None
StrptimeTime(s) ==
  LET f == Fields(s, ":", 2)
  IN  IF f = <<>> THEN None
      ELSE IF ~(MatchHour(f[1]) /\ MatchMinute(f[2])) THEN None
      ELSE <<NumVal(f[1]), NumVal(f[2])>>

\* convert_datetime(date_str, time_str): <<year, month, day, hour, minute>>,
\* or None (missing input, or the except branch)
convert_datetime(date_str, time_str) ==
  IF isna(date_str) \/ isna(time_str) THEN None
  ELSE LET date_obj == StrptimeDate(date_str[1])
           time_obj == StrptimeTime(time_str[1])
       IN  IF date_obj = None \/ time_obj = None THEN None
           ELSE date_obj \o time_obj

\* a <= b on two datetimes (lexicographic on the five components)
RECURSIVE LexLeq(_, _)
LexLeq(a, b) ==
  IF a = <<>> THEN TRUE
  ELSE IF Head(a) # Head(b) THEN Head(a) < Head(b)
  ELSE LexLeq(Tail(a), Tail(b))

\* faulty variant: the comparison is strict, equal instants count as out of order
RECURSIVE LexLt(_, _)
LexLt(a, b) ==
  IF a = <<>> THEN FALSE
  ELSE IF Head(a) # Head(b) THEN Head(a) < Head(b)
  ELSE LexLt(Tail(a), Tail(b))

DatetimeLeq(a, b) == LexLeq(a, b)

(***************************************************************************)
(* Rows and frames                                                         *)
(***************************************************************************)
Columns ==
  {"Id.Vuelo", "Sit.", "Est.", "Registro", "Cl.", "Org.", "Fecha", "ALDT",
   "F.ETime", "AIBT", "Assoc. Sit.", "Assoc. Est.", "Assoc. Data",
   "Assoc. F.ETime", "Assoc. AOBT", "Assoc. ATOT"}

\* membership of a cell in a Python list of literals (a missing cell equals none)
InList(v, list) == \E i \in 1..Len(list) : v = Str(list[i])

\* pd.read_csv gives the frame a RangeIndex 0..n-1
Frame(rows) == [i \in 1..Len(rows) |-> [idx |-> i - 1, row |-> rows[i]]]

\* faulty variant: df.iloc[0:], the first remaining record is evaluated too
iloc_from_0(frame) == frame

\* df.iloc[1:]
iloc_from_1(frame) == SubSeq(frame, 2, Len(frame))

\* the terminal codes of line 42
Excluded == <<"CAN", "BOR">>

\* faulty variant: only CAN is filtered out
FilterFrameCanOnly(frame) ==
  SelectSeq(frame, LAMBDA e : e.row["Sit."] # Str("CAN"))

\* df[~df['Sit.'].isin(['CAN', 'BOR'])]
FilterFrame(frame) ==
  SelectSeq(frame, LAMBDA e : ~InList(e.row["Sit."], Excluded))

(***************************************************************************)
(* The violations dictionary and the seven rules of the loop body          *)
(***************************************************************************)
CategoryOrder ==
  <<"status_violations", "time_violations", "station_violations",
    "registration_violations", "movement_violations", "operation_violations",
    "assoc_time_violations">>

Categories == {CategoryOrder[i] : i \in 1..Len(CategoryOrder)}

EmptyViolations == [c \in Categories |-> <<>>]

\* an f-string message: the flight identifier, the wording, the values printed
Msg(row, text, cols) ==
  [voo |-> row["Id.Vuelo"], text |-> text,
   vals |-> [i \in 1..Len(cols) |-> Fmt(row[cols[i]])]]

\* lines 48-56
TimeRule(row) ==
  LET arrival_datetime == convert_datetime(row["Fecha"], row["ALDT"])
      block_datetime == convert_datetime(row["F.ETime"], row["AIBT"])
  IN  IF arrival_datetime # None /\ block_datetime # None
         /\ ~DatetimeLeq(arrival_datetime, block_datetime)
      THEN <<Msg(row, "Fecha+ALDT nao e anterior ou igual a F.ETime+AIBT",
                 <<"Fecha", "ALDT", "F.ETime", "AIBT">>)>>
      ELSE <<>>

\* lines 58-61
StatusRule(row) ==
  IF row["Sit."] # Str("OPE")
  THEN <<Msg(row, "Status invalido", <<"Sit.">>)>>
  ELSE <<>>

\* lines 63-66
StationRule(row) ==
  IF row["Est."] # Str("IBK")
  THEN <<Msg(row, "Estacao invalida", <<"Est.">>)>>
  ELSE <<>>

\* faulty variant: the list of the specification, RAK in place of the second LPA
excecoes_com_RAK ==
  <<"MVD", "EZE", "LIS", "AEP", "SID", "MCO", "FLL", "TFS", "RKA", "LPA",
    "ACC", "MIA", "RAK">>

\* line 72
excecoes_origem ==
  <<"MVD", "EZE", "LIS", "AEP", "SID", "MCO", "FLL", "TFS", "RKA", "LPA",
    "ACC", "MIA", "LPA">>

\* line 74
PrefixList == <<"PT", "PS", "PP", "PR", "PU">>

\* lines 68-77
RegistrationRule(row) ==
  IF notna(row["Registro"])
  THEN LET prefix == Str(Slice(row["Registro"][1], 2))
           origem == row["Org."]
       IN  IF InList(prefix, PrefixList)
              /\ ~InList(origem, excecoes_origem) /\ row["Cl."] # Str("A")
           THEN <<Msg(row, "Registro deve ter classe A",
                      <<"Registro", "Org.", "Cl.">>)>>
           ELSE <<>>
  ELSE <<>>

\* faulty variant: the empty text is not accepted as an associated status
OperationRuleOpeOnly(row) ==
  IF notna(row["Assoc. Sit."]) /\ ~InList(row["Assoc. Sit."], <<"OPE">>)
  THEN <<Msg(row, "Status associado invalido", <<"Assoc. Sit.">>)>>
  ELSE <<>>

\* lines 79-82
OperationRule(row) ==
  IF notna(row["Assoc. Sit."]) /\ ~InList(row["Assoc. Sit."], <<"OPE", "">>)
  THEN <<Msg(row, "Status associado invalido", <<"Assoc. Sit.">>)>>
  ELSE <<>>

\* lines 84-87
MovementRule(row) ==
  IF notna(row["Assoc. Est."]) /\ ~InList(row["Assoc. Est."], <<"AIR", "">>)
  THEN <<Msg(row, "Estacao associada invalida", <<"Assoc. Est.">>)>>
  ELSE <<>>

\* lines 89-98
AssocTimeRule(row) ==
  IF notna(row["Assoc. AOBT"]) /\ notna(row["Assoc. ATOT"])
  THEN LET aobt_datetime == convert_datetime(row["Assoc. Data"], row["Assoc. AOBT"])
           atot_datetime == convert_datetime(row["Assoc. F.ETime"], row["Assoc. ATOT"])
       IN  IF aobt_datetime # None /\ atot_datetime # None
              /\ ~DatetimeLeq(aobt_datetime, atot_datetime)
           THEN <<Msg(row, "Assoc. Data+AOBT nao e anterior ou igual a Assoc. F.ETime+ATOT",
                      <<"Assoc. Data", "Assoc. AOBT", "Assoc. F.ETime", "Assoc. ATOT">>)>>
           ELSE <<>>
  ELSE <<>>

\* faulty variant: the associated-time message is appended to time_violations
RowViolationsSharedList(row) ==
  [c \in Categories |->
     CASE c = "time_violations" -> TimeRule(row) \o AssocTimeRule(row)
       [] c = "status_violations" -> StatusRule(row)
       [] c = "station_violations" -> StationRule(row)
       [] c = "registration_violations" -> RegistrationRule(row)
       [] c = "operation_violations" -> OperationRule(row)
       [] c = "movement_violations" -> MovementRule(row)
       [] c = "assoc_time_violations" -> <<>>]

\* faulty variant: the checks are chained with elif, the first failure ends the row
RowViolationsElif(row) ==
  [c \in Categories |->
     CASE c = "time_violations" -> TimeRule(row)
       [] c = "status_violations" ->
            IF TimeRule(row) = <<>> THEN StatusRule(row) ELSE <<>>
       [] c = "station_violations" ->
            IF TimeRule(row) \o StatusRule(row) = <<>>
            THEN StationRule(row) ELSE <<>>
       [] c = "registration_violations" ->
            IF TimeRule(row) \o StatusRule(row) \o StationRule(row) = <<>>
            THEN RegistrationRule(row) ELSE <<>>
       [] c = "operation_violations" ->
            IF TimeRule(row) \o StatusRule(row) \o StationRule(row)
               \o RegistrationRule(row) = <<>>
            THEN OperationRule(row) ELSE <<>>
       [] c = "movement_violations" ->
            IF TimeRule(row) \o StatusRule(row) \o StationRule(row)
               \o RegistrationRule(row) \o OperationRule(row) = <<>>
            THEN MovementRule(row) ELSE <<>>
       [] c = "assoc_time_violations" ->
            IF TimeRule(row) \o StatusRule(row) \o StationRule(row)
               \o RegistrationRule(row) \o OperationRule(row)
               \o MovementRule(row) = <<>>
            THEN AssocTimeRule(row) ELSE <<>>]

\* one pass of the loop body: what each category receives for this row
RowViolations(row) ==
  [c \in Categories |->
     CASE c = "time_violations" -> TimeRule(row)
       [] c = "status_violations" -> StatusRule(row)
       [] c = "station_violations" -> StationRule(row)
       [] c = "registration_violations" -> RegistrationRule(row)
       [] c = "operation_violations" -> OperationRule(row)
       [] c = "movement_violations" -> MovementRule(row)
       [] c = "assoc_time_violations" -> AssocTimeRule(row)]

(***************************************************************************)
(* main: the summary, the display and the download                         *)
(***************************************************************************)
RECURSIVE SumLen(_, _)
SumLen(v, cats) ==
  IF cats = <<>> THEN 0 ELSE Len(v[Head(cats)]) + SumLen(v, Tail(cats))

\* faulty variant: only the four categories that are always displayed are summed
TotalViolationsBasic(v) ==
  SumLen(v, <<"time_violations", "status_violations", "station_violations",
              "registration_violations">>)

\* line 129: sum(len(v) for v in violations.values())
TotalViolations(v) == SumLen(v, CategoryOrder)

\* line 130: len(df)-1, df being main's frame (validate_flights rebinds only
\* its own local name)
RecordsProcessed(frame) == Len(frame) - 1

\* one "if violations[c]:" block of lines 138-174
ShowBlock(v, c, details) ==
  IF v[c] # <<>>
  THEN <<[category |-> c, count |-> Len(v[c]),
          detail |-> IF details THEN v[c] ELSE <<>>]>>
  ELSE <<>>

\* lines 134-174
ShowAll(v, total, movement, details) ==
  IF total > 0
  THEN ShowBlock(v, "time_violations", details)
       \o ShowBlock(v, "status_violations", details)
       \o ShowBlock(v, "station_violations", details)
       \o ShowBlock(v, "registration_violations", details)
       \o (IF movement
           THEN ShowBlock(v, "movement_violations", details)
                \o ShowBlock(v, "operation_violations", details)
                \o ShowBlock(v, "assoc_time_violations", details)
           ELSE <<>>)
  ELSE <<>>

\* to_csv(index=False): the index is dropped and a missing cell is written empty
ToCsvCell(v) == IF v = NaN THEN "" ELSE v[1]

to_csv(frame) ==
  [i \in 1..Len(frame) |->
     [c \in Columns |->
        IF c = "Id.Vuelo" THEN frame[i].row[c] ELSE ToCsvCell(frame[i].row[c])]]

(***************************************************************************)
(* Actions                                                                 *)
(***************************************************************************)
\* lines 31-42: the empty dictionary and the CAN/BOR filter
FilterRows ==
  /\ pc = "validate"
  /\ violations' = EmptyViolations
  /\ dfv' = FilterFrame(df)
  /\ it' = 1
  /\ pc' = "loop"
  /\ UNCHANGED <<df, show_movement, show_corrections, df_validated,
                 total_violations, processed, written, csv>>

\* lines 45-98: one iteration of the loop over df.iloc[1:]
ValidateRow ==
  /\ pc = "loop"
  /\ it <= Len(iloc_from_1(dfv))
  /\ LET row == iloc_from_1(dfv)[it].row
     IN  violations' = [c \in Categories |-> violations[c] \o RowViolations(row)[c]]
  /\ it' = it + 1
  /\ UNCHANGED <<pc, df, show_movement, show_corrections, dfv, df_validated,
                 total_violations, processed, written, csv>>

\* line 100 and the assignment of line 125
ReturnValidated ==
  /\ pc = "loop"
  /\ it > Len(iloc_from_1(dfv))
  /\ df_validated' = dfv
  /\ pc' = "returned"
  /\ UNCHANGED <<df, show_movement, show_corrections, dfv, it, violations,
                 total_violations, processed, written, csv>>

\* lines 128-131
Summary ==
  /\ pc = "returned"
  /\ total_violations' = TotalViolations(violations)
  /\ processed' = RecordsProcessed(df)
  /\ pc' = "summary"
  /\ UNCHANGED <<df, show_movement, show_corrections, dfv, it, violations,
                 df_validated, written, csv>>

\* lines 134-174
ShowCategories ==
  /\ pc = "summary"
  /\ written' = ShowAll(violations, total_violations, show_movement, show_corrections)
  /\ pc' = "shown"
  /\ UNCHANGED <<df, show_movement, show_corrections, dfv, it, violations,
                 df_validated, total_violations, processed, csv>>

\* lines 176-187
Download ==
  /\ pc = "shown"
  /\ csv' = to_csv(df_validated)
  /\ pc' = "done"
  /\ UNCHANGED <<df, show_movement, show_corrections, dfv, it, violations,
                 df_validated, total_violations, processed, written>>

Next ==
  \/ FilterRows
  \/ ValidateRow
  \/ ReturnValidated
  \/ Summary
  \/ ShowCategories
  \/ Download

(***************************************************************************)
(* Input tables                                                            *)
(***************************************************************************)
MaxRows == 3

\* the columns after Id.Vuelo, in the order the tuples below list their cells
CellOrder ==
  <<"Sit.", "Est.", "Registro", "Cl.", "Org.", "Fecha", "ALDT", "F.ETime",
    "AIBT", "Assoc. Sit.", "Assoc. Est.", "Assoc. Data", "Assoc. F.ETime",
    "Assoc. AOBT", "Assoc. ATOT">>

Position(c) == CHOOSE k \in 1..Len(CellOrder) : CellOrder[k] = c

\* the row with flight identifier id and the given cells
MkRow(id, cells) ==
  [c \in Columns |-> IF c = "Id.Vuelo" THEN id ELSE cells[Position(c)]]

\* the cells with column c set to v
With(cells, c, v) == [cells EXCEPT ![Position(c)] = v]

\* a row that breaks no rule
Clean ==
  <<Str("OPE"), Str("IBK"), Str("PP1234"), Str("A"), Str("GRU"),
    Str("01/01/2024"), Str("09:00"), Str("01/01/2024"), Str("09:10"),
    Str("OPE"), Str("AIR"), Str("01/01/2024"), Str("01/01/2024"),
    Str("10:00"), Str("10:10")>>

\* a row that breaks every rule
Failing ==
  <<Str("DIV"), Str("GRU"), Str("PP1234"), Str("C"), Str("GRU"),
    Str("01/01/2024"), Str("10:00"), Str("01/01/2024"), Str("09:00"),
    Str("DIV"), Str("GND"), Str("02/01/2024"), Str("01/01/2024"),
    Str("10:00"), Str("09:00")>>

\* the failing row with dates and times that do not parse
BadDates ==
  <<Str("DIV"), Str("GRU"), Str("PP1234"), Str("C"), Str("GRU"),
    Str("2024-01-01"), Str("10h00"), Str("01/01/2024"), Str("09:00"),
    Str("DIV"), Str("GND"), Str("02/01/2024"), Str("31/02/2024"),
    Str("10:00"), Str("09:00")>>

\* the row with status OPE and every optional cell missing
Missing ==
  <<Str("OPE"), NaN, NaN, NaN, NaN, NaN, NaN, NaN, NaN, NaN, NaN, NaN, NaN,
    NaN, NaN>>

Pool ==
  {Clean, With(Clean, "Sit.", Str("CAN")), Failing,
   With(Failing, "Sit.", Str("BOR")), With(Failing, "Sit.", Str("OPE")),
   Missing, BadDates}

\* the frame load_data returns for the rows given as cell tuples; the flight
\* identifiers follow the position in the file
Load(t) == Frame([i \in 1..Len(t) |-> MkRow(100 + i, t[i])])

Tables == UNION {[1..n -> Pool] : n \in 0..MaxRows}

\* the state main is in at line 125: the file loaded, the checkboxes read
InitWith(tables, movement, details) ==
  /\ pc = "validate"
  /\ df \in {Load(t) : t \in tables}
  /\ show_movement \in movement
  /\ show_corrections \in details
  /\ dfv = <<>>
  /\ it = 0
  /\ violations = <<>>
  /\ df_validated = <<>>
  /\ total_violations = 0
  /\ processed = 0
  /\ written = <<>>
  /\ csv = <<>>

Init == InitWith(Tables, BOOLEAN, BOOLEAN)

Spec == Init /\ [][Next]_vars

(***************************************************************************)
(* Tables that vary the cells one rule reads                               *)
(***************************************************************************)
\* the records put in front of the record under study: one that is kept and
\* one that the filter removes
Leads == {Clean, With(Failing, "Sit.", Str("BOR"))}

\* a record alone, and behind each lead
Behind(rows) == {<<r>> : r \in rows} \cup {<<l, r>> : l \in Leads, r \in rows}

DateCells ==
  {NaN, Str(""), Str("01/01/2024"), Str("02/01/2024"), Str("1/1/2024"),
   Str("31/02/2024"), Str("2024-01-01")}

TimeCells ==
  {NaN, Str(""), Str("09:00"), Str("10:00"), Str("9:00"), Str("24:00")}

TimeRows ==
  {With(With(With(With(Clean, "Fecha", d1), "ALDT", t1), "F.ETime", d2), "AIBT", t2) :
     d1 \in DateCells, t1 \in TimeCells, d2 \in DateCells, t2 \in TimeCells}

InitTime == InitWith(Behind(TimeRows), BOOLEAN, {TRUE})

SpecTime == InitTime /\ [][Next]_vars

RegistroCells ==
  {NaN, Str(""), Str("P"), Str("PS"), Str("PP1234"), Str("PT99"), Str("PR-ABC"),
   Str("PU1"), Str("pp1234"), Str("XPP1"), Str("N123")}

OrgCells ==
  {NaN, Str(""), Str("GRU"), Str("RAK"), Str("mvd"), Str("MVD "), Str("MVD"),
   Str("EZE"), Str("LIS"), Str("AEP"), Str("SID"), Str("MCO"), Str("FLL"),
   Str("TFS"), Str("RKA"), Str("LPA"), Str("ACC"), Str("MIA")}

ClCells == {NaN, Str(""), Str("A"), Str("a"), Str("A "), Str("C")}

RegRows ==
  {With(With(With(Clean, "Registro", r), "Org.", o), "Cl.", k) :
     r \in RegistroCells, o \in OrgCells, k \in ClCells}

InitReg == InitWith(Behind(RegRows), BOOLEAN, {TRUE})

SpecReg == InitReg /\ [][Next]_vars

AssocSitCells ==
  {NaN, Str(""), Str("OPE"), Str("ope"), Str("OPE "), Str("DIV"), Str("CAN")}

AssocRows ==
  {With(b, "Assoc. Sit.", a) : b \in {Clean, Failing, Missing}, a \in AssocSitCells}

\* as Behind, and two records under study behind each lead
AssocTables ==
  Behind(AssocRows)
    \cup {<<l, r1, r2>> : l \in Leads, r1 \in AssocRows, r2 \in AssocRows}

InitAssoc == InitWith(AssocTables, BOOLEAN, {TRUE})

SpecAssoc == InitAssoc /\ [][Next]_vars

(***************************************************************************)
(* Vocabulary of the properties                                            *)
(***************************************************************************)
\* validate_flights has built its dictionary
Built == pc # "validate"

\* validate_flights has returned
Returned == pc \in {"returned", "summary", "shown", "done"}

\* the summary of lines 128-131 has been written
Summarised == pc \in {"summary", "shown", "done"}

IdOf(i) == df[i].row["Id.Vuelo"]

\* positions of the input records whose status is CAN or BOR, and of the others
ExcludedIdx == {i \in 1..Len(df) : df[i].row["Sit."] \in {Str("CAN"), Str("BOR")}}

RemainingIdx == (1..Len(df)) \ ExcludedIdx

FirstRemaining == CHOOSE i \in RemainingIdx : \A j \in RemainingIdx : i <= j

\* the remaining records after the first one
EvaluatedIdx == {i \in RemainingIdx : i # FirstRemaining}

\* number of messages of category c that name flight id
MsgCount(c, id) ==
  Cardinality({k \in 1..Len(violations[c]) : violations[c][k].voo = id})

SevenNames ==
  {"status_violations", "time_violations", "station_violations",
   "registration_violations", "movement_violations", "operation_violations",
   "assoc_time_violations"}

OptionalColumns == Columns \ {"Id.Vuelo", "Sit."}

(***************************************************************************)
(* C1                                                                      *)
(***************************************************************************)
\* C1: a record whose status is CAN or BOR is absent from the frame
\* validate_flights returns and no message of any category names it; the
\* records of the returned frame are input records, unchanged and in their
\* input order.
C1_ExcludedAbsent ==
  /\ Built =>
       \A i \in ExcludedIdx : \A c \in DOMAIN violations : MsgCount(c, IdOf(i)) = 0
  /\ Returned =>
       /\ \A i \in ExcludedIdx : \A k \in 1..Len(df_validated) :
            df_validated[k].row # df[i].row
       /\ \A k \in 1..Len(df_validated) :
            \E i \in 1..Len(df) : df_validated[k] = df[i]
       /\ \A j, k \in 1..Len(df_validated) :
            j < k => df_validated[j].idx < df_validated[k].idx

\* a BOR record that breaks every rule stands between two kept records, and
\* the run has produced messages
C1_Witness ==
  /\ pc = "done"
  /\ Len(df) = 3
  /\ df[2].row["Sit."] = Str("BOR")
  /\ df[2].row["Est."] = Str("GRU")
  /\ Len(df_validated) = 2
  /\ total_violations > 0

(***************************************************************************)
(* C2                                                                      *)
(***************************************************************************)
\* C2: the reported count of records processed is the number of records left
\* by the CAN/BOR filter minus one; it does not count the removed records.
C2_ProcessedCountsFiltered ==
  Summarised => processed = Cardinality(RemainingIdx) - 1

(***************************************************************************)
(* C3                                                                      *)
(***************************************************************************)
NoMessage(i) == \A c \in SevenNames : MsgCount(c, IdOf(i)) = 0

\* row i is row j with exactly one optional cell made missing
OneMadeMissing(i, j) ==
  \E c \in OptionalColumns :
    /\ df[j].row[c] # NaN
    /\ df[i].row[c] = NaN
    /\ \A d \in Columns \ {c, "Id.Vuelo"} : df[i].row[d] = df[j].row[d]

\* C3: a missing optional cell is never a violation by itself: an evaluated
\* record with status OPE whose optional cells are all missing gets no message,
\* and a violation-free record with one optional cell made missing gets none.
C3_MissingNeverViolation ==
  Returned =>
    /\ \A i \in EvaluatedIdx :
         (/\ df[i].row["Sit."] = Str("OPE")
          /\ \A c \in OptionalColumns : df[i].row[c] = NaN) => NoMessage(i)
    /\ \A i, j \in EvaluatedIdx :
         (NoMessage(j) /\ OneMadeMissing(i, j)) => NoMessage(i)

(***************************************************************************)
(* C4                                                                      *)
(***************************************************************************)
\* C4: the dictionary has exactly the seven categories; every message names an
\* input record, every record has at most one message per category (so between
\* 0 and 7 in all), and no category is longer than the number of records
\* evaluated.
C4_AtMostOnePerCategory ==
  Built =>
    /\ DOMAIN violations = SevenNames
    /\ \A c \in SevenNames : \A k \in 1..Len(violations[c]) :
         \E i \in 1..Len(df) : violations[c][k].voo = IdOf(i)
    /\ \A i \in 1..Len(df) : \A c \in SevenNames : MsgCount(c, IdOf(i)) <= 1
    /\ \A c \in SevenNames : Len(violations[c]) <= it - 1
    /\ Returned => \A c \in SevenNames :
         Len(violations[c]) <= Cardinality(EvaluatedIdx)

\* one evaluated record has a message in each of the seven categories
C4_Witness ==
  /\ Returned
  /\ \E i \in EvaluatedIdx : \A c \in SevenNames : MsgCount(c, IdOf(i)) = 1
  /\ \E i \in EvaluatedIdx : NoMessage(i)

(***************************************************************************)
(* C5                                                                      *)
(***************************************************************************)
\* C5: the total written in the summary is the sum of the lengths of the seven
\* category lists, whatever the checkboxes display.
C5_TotalIsSumOfSeven ==
  Summarised =>
    total_violations =
      Len(violations["status_violations"]) + Len(violations["time_violations"])
      + Len(violations["station_violations"])
      + Len(violations["registration_violations"])
      + Len(violations["movement_violations"])
      + Len(violations["operation_violations"])
      + Len(violations["assoc_time_violations"])

\* the movement checkbox is off, the hidden categories hold messages and the
\* total still counts them
C5_Witness ==
  /\ pc = "done"
  /\ ~show_movement
  /\ Len(violations["movement_violations"]) > 0
  /\ Len(violations["status_violations"]) > 0
  /\ \A k \in 1..Len(written) : written[k].category # "movement_violations"
  /\ total_violations > Len(violations["status_violations"])

(***************************************************************************)
(* C9                                                                      *)
(***************************************************************************)
\* the messages category c receives from the records at positions i..Len(df)
\* that are evaluated, in input order
RECURSIVE ExpectedFrom(_, _)
ExpectedFrom(c, i) ==
  IF i > Len(df) THEN <<>>
  ELSE (IF i \in EvaluatedIdx THEN RowViolations(df[i].row)[c] ELSE <<>>)
       \o ExpectedFrom(c, i + 1)

\* the input records that are neither CAN nor BOR, from position i on
RECURSIVE KeptFrom(_)
KeptFrom(i) ==
  IF i > Len(df) THEN <<>>
  ELSE (IF i \in RemainingIdx THEN <<df[i]>> ELSE <<>>) \o KeptFrom(i + 1)

\* C9: the first record left by the filter gets no message whatever its cells;
\* every later remaining record is evaluated exactly once, in input order, so
\* each category lists its messages in row order; the returned frame is exactly
\* the filtered record set and still holds the skipped record.
C9_FirstRemainingSkipped ==
  Returned =>
    /\ RemainingIdx # {} =>
         \A c \in SevenNames : MsgCount(c, IdOf(FirstRemaining)) = 0
    /\ it - 1 = Cardinality(EvaluatedIdx)
    /\ \A c \in SevenNames : violations[c] = ExpectedFrom(c, 1)
    /\ \A c \in SevenNames : \A j, k \in 1..Len(violations[c]) :
         j < k => violations[c][j].voo < violations[c][k].voo
    /\ \A i \in EvaluatedIdx :
         MsgCount("status_violations", IdOf(i))
           = IF df[i].row["Sit."] = Str("OPE") THEN 0 ELSE 1
    /\ df_validated = KeptFrom(1)
    /\ RemainingIdx # {} => df_validated[1] = df[FirstRemaining]

\* the first remaining record breaks every rule and is in the returned frame
\* without a message, while two later records have been reported
C9_Witness ==
  /\ pc = "done"
  /\ Len(df) = 3
  /\ df[1].row["Sit."] = Str("DIV")
  /\ df[1].row["Est."] = Str("GRU")
  /\ Len(df_validated) = 3
  /\ Len(violations["status_violations"]) = 2
  /\ MsgCount("status_violations", IdOf(1)) = 0

(***************************************************************************)
(* C10                                                                     *)
(***************************************************************************)
\* the columns each rule reads
ReadBy(c) ==
  CASE c = "time_violations" -> {"Fecha", "ALDT", "F.ETime", "AIBT"}
    [] c = "status_violations" -> {"Sit."}
    [] c = "station_violations" -> {"Est."}
    [] c = "registration_violations" -> {"Registro", "Org.", "Cl."}
    [] c = "operation_violations" -> {"Assoc. Sit."}
    [] c = "movement_violations" -> {"Assoc. Est."}
    [] c = "assoc_time_violations" ->
         {"Assoc. Data", "Assoc. AOBT", "Assoc. F.ETime", "Assoc. ATOT"}

\* the rule of category c fails on the row
Fails(c, row) ==
  CASE c = "time_violations" -> TimeRule(row) # <<>>
    [] c = "status_violations" -> StatusRule(row) # <<>>
    [] c = "station_violations" -> StationRule(row) # <<>>
    [] c = "registration_violations" -> RegistrationRule(row) # <<>>
    [] c = "operation_violations" -> OperationRule(row) # <<>>
    [] c = "movement_violations" -> MovementRule(row) # <<>>
    [] c = "assoc_time_violations" -> AssocTimeRule(row) # <<>>

\* the Timestamp Combiner gives None for one of the pairs of the row
Unavailable(row) ==
  \/ convert_datetime(row["Fecha"], row["ALDT"]) = None
  \/ convert_datetime(row["F.ETime"], row["AIBT"]) = None
  \/ convert_datetime(row["Assoc. Data"], row["Assoc. AOBT"]) = None
  \/ convert_datetime(row["Assoc. F.ETime"], row["Assoc. ATOT"]) = None

\* C10: for every evaluated record each rule appends its message exactly when
\* that rule fails, whatever the other rules do; two evaluated records that
\* agree on the columns a rule reads get the same outcome from it; a record
\* whose dates do not parse still gets the messages of the other rules, and the
\* records after it are still evaluated; a record that fails all seven rules
\* has exactly one message in each category.
C10_RulesIndependent ==
  Returned =>
    /\ \A i \in EvaluatedIdx : \A c \in SevenNames :
         MsgCount(c, IdOf(i)) = IF Fails(c, df[i].row) THEN 1 ELSE 0
    /\ \A i, j \in EvaluatedIdx : \A c \in SevenNames :
         (\A col \in ReadBy(c) : df[i].row[col] = df[j].row[col])
           => MsgCount(c, IdOf(i)) = MsgCount(c, IdOf(j))
    /\ \A i \in EvaluatedIdx :
         (Unavailable(df[i].row) /\ df[i].row["Est."] = Str("GRU"))
           => /\ MsgCount("station_violations", IdOf(i)) = 1
              /\ MsgCount("registration_violations", IdOf(i)) = 1
              /\ MsgCount("operation_violations", IdOf(i)) = 1
              /\ MsgCount("movement_violations", IdOf(i)) = 1
    /\ \A i \in EvaluatedIdx :
         (\A c \in SevenNames : Fails(c, df[i].row))
           => \A c \in SevenNames : MsgCount(c, IdOf(i)) = 1

\* a record with unparsable dates has been evaluated and kept its five other
\* messages, and the record after it fails all seven rules and has seven
C10_Witness ==
  /\ Returned
  /\ Len(df) = 3
  /\ df[2].row["Fecha"] = Str("2024-01-01")
  /\ Unavailable(df[2].row)
  /\ MsgCount("status_violations", IdOf(2)) = 1
  /\ MsgCount("movement_violations", IdOf(2)) = 1
  /\ MsgCount("time_violations", IdOf(2)) = 0
  /\ \A c \in SevenNames : Fails(c, df[3].row) /\ MsgCount(c, IdOf(3)) = 1

(***************************************************************************)
(* C6                                                                      *)
(***************************************************************************)
\* what the Timestamp Combiner is to make of each date and time of the tables:
\* None stands for Unavailable (strptime accepts a day, month, hour or minute
\* of one digit)
DateRead(cell) ==
  CASE cell = NaN -> None
    [] cell = Str("") -> None
    [] cell = Str("01/01/2024") -> <<2024, 1, 1>>
    [] cell = Str("02/01/2024") -> <<2024, 1, 2>>
    [] cell = Str("1/1/2024") -> <<2024, 1, 1>>
    [] cell = Str("31/02/2024") -> None
    [] cell = Str("2024-01-01") -> None

TimeRead(cell) ==
  CASE cell = NaN -> None
    [] cell = Str("") -> None
    [] cell = Str("09:00") -> <<9, 0>>
    [] cell = Str("09:10") -> <<9, 10>>
    [] cell = Str("10:00") -> <<10, 0>>
    [] cell = Str("9:00") -> <<9, 0>>
    [] cell = Str("24:00") -> None

MinuteOf(d, t) == (((d[1] * 12 + d[2]) * 31 + d[3]) * 24 + t[1]) * 60 + t[2]

\* both instants are available and the arrival is strictly later than block-in
ArrivalAfterBlockIn(row) ==
  LET d1 == DateRead(row["Fecha"])
      t1 == TimeRead(row["ALDT"])
      d2 == DateRead(row["F.ETime"])
      t2 == TimeRead(row["AIBT"])
  IN  /\ d1 # None /\ t1 # None /\ d2 # None /\ t2 # None
      /\ MinuteOf(d1, t1) > MinuteOf(d2, t2)

TimeOutcomeRight(i) ==
  MsgCount("time_violations", IdOf(i))
    = IF ArrivalAfterBlockIn(df[i].row) THEN 1 ELSE 0

ClaimedExceptions ==
  {"MVD", "EZE", "LIS", "AEP", "SID", "MCO", "FLL", "TFS", "RKA", "LPA", "ACC",
   "MIA", "RAK"}

ConfiguredExceptions == ClaimedExceptions \ {"RAK"}

\* the registration is present with a Brazilian prefix, the origin is no exact
\* member of the exceptions and the class is not exactly "A"
PairingBroken(row, exceptions) ==
  /\ row["Registro"] # NaN
  /\ Len(row["Registro"][1]) >= 2
  /\ SubSeq(row["Registro"][1], 1, 2) \in {"PT", "PS", "PP", "PR", "PU"}
  /\ ~(row["Org."] # NaN /\ row["Org."][1] \in exceptions)
  /\ row["Cl."] # Str("A")

RegistrationOutcomeRight(i, exceptions) ==
  MsgCount("registration_violations", IdOf(i))
    = IF PairingBroken(df[i].row, exceptions) THEN 1 ELSE 0

\* C7 as claimed: every record left by the filter has a registration message
\* exactly when the pairing is broken, RAK being one of the exceptions.
C7_EveryRemainingRecordWithRAK ==
  Returned => \A i \in RemainingIdx : RegistrationOutcomeRight(i, ClaimedExceptions)

\* C7 as amended: every record left by the filter except the first one has a
\* registration message exactly when the pairing is broken, the exceptions
\* being MVD, EZE, LIS, AEP, SID, MCO, FLL, TFS, RKA, LPA, ACC, MIA (RAK is
\* none of them); the first remaining record never has one.
C7_EveryEvaluatedRecordNoRAK ==
  Returned =>
    /\ \A i \in EvaluatedIdx : RegistrationOutcomeRight(i, ConfiguredExceptions)
    /\ RemainingIdx # {} =>
         MsgCount("registration_violations", IdOf(FirstRemaining)) = 0

\* PP1234 of class C from GRU has been evaluated and has its message
C7_Witness ==
  /\ Returned
  /\ \E i \in EvaluatedIdx :
       /\ df[i].row["Registro"] = Str("PP1234")
       /\ df[i].row["Org."] = Str("GRU")
       /\ df[i].row["Cl."] = Str("C")
       /\ MsgCount("registration_violations", IdOf(i)) = 1

(***************************************************************************)
(* C8                                                                      *)
(***************************************************************************)
\* the associated status is present and neither "OPE" nor the empty text
AssocStatusBroken(row) ==
  /\ row["Assoc. Sit."] # NaN
  /\ row["Assoc. Sit."] \notin {Str("OPE"), Str("")}

OperationOutcomeRight(i) ==
  MsgCount("operation_violations", IdOf(i))
    = IF AssocStatusBroken(df[i].row) THEN 1 ELSE 0

\* records i and j differ in the associated status at most, and so get the
\* same number of messages in every other category
OnlyOperationDiffers(i, j) ==
  (\A d \in Columns \ {"Assoc. Sit.", "Id.Vuelo"} : df[i].row[d] = df[j].row[d])
    => \A c \in SevenNames \ {"operation_violations"} :
         MsgCount(c, IdOf(i)) = MsgCount(c, IdOf(j))

\* C8 as claimed: every record left by the filter has an operation message
\* exactly when its associated status is present and neither "OPE" nor empty,
\* and that cell moves no other category.
C8_EveryRemainingRecord ==
  Returned =>
    /\ \A i \in RemainingIdx : OperationOutcomeRight(i)
    /\ \A i, j \in RemainingIdx : OnlyOperationDiffers(i, j)

\* C8 as amended: every record left by the filter except the first one has an
\* operation message exactly when its associated status is present and neither
\* "OPE" nor empty, and that cell moves no other category; the first remaining
\* record never has one.
C8_EveryEvaluatedRecord ==
  Returned =>
    /\ \A i \in EvaluatedIdx : OperationOutcomeRight(i)
    /\ \A i, j \in EvaluatedIdx : OnlyOperationDiffers(i, j)
    /\ RemainingIdx # {} =>
         MsgCount("operation_violations", IdOf(FirstRemaining)) = 0

\* two evaluated records differ in the associated status only: DIV has the
\* operation message, the empty text has none, and both have the same others
C8_Witness ==
  /\ Returned
  /\ \E i, j \in EvaluatedIdx :
       /\ df[i].row["Assoc. Sit."] = Str("DIV")
       /\ df[j].row["Assoc. Sit."] = Str("")
       /\ \A d \in Columns \ {"Assoc. Sit.", "Id.Vuelo"} : df[i].row[d] = df[j].row[d]
       /\ MsgCount("operation_violations", IdOf(i)) = 1
       /\ MsgCount("operation_violations", IdOf(j)) = 0
       /\ MsgCount("movement_violations", IdOf(i)) = 1
       /\ MsgCount("movement_violations", IdOf(j)) = 1

====
